---------------------------- MODULE Spec2Model ----------------------------
(***************************************************************************)
(* WinLamb: the message-handler stores and their dispatch, the dialog      *)
(* life cycle, the setup()/creation guards, the background-thread / UI     *)
(* thread bridge, the tracking of modeless children by a main window, the  *)
(* modal loop of window_modal, accel_table and insert_order_map.           *)
(*                                                                         *)
(* 32-bit values whose bits matter (WPARAM, DWORD, UINT) are pairs         *)
(* <<high word, low word>>, each word in 0..65535.                         *)
(***************************************************************************)
EXTENDS Integers, Sequences, FiniteSets, TLC

VARIABLES
    cls,        \* the class of the object (window_main ... dialog_control)
    hWnd,       \* base_dialog::_hWnd / base_window's stored HWND; 0 is nullptr
    osWin,      \* the Win32 window of the object: "none", "creating", "live"
    dwlpUser,   \* whether DWLP_USER of the window holds the pointer to the object
    setupOpts,  \* the object's _setup (dialog_id for the dialog classes)
    msgs,       \* base_msg_handler::_msgs
    cmds,       \* base_msg_handler::_cmds
    nfys,       \* base_msg_handler::_nfys
    lastCall,   \* what the latest call of the public API did
    lastExec,   \* what the latest run of the dialog procedure did
    boxPc,      \* the Win32 creation call the thread is inside of, or "idle"
    endResult,  \* the value passed to EndDialog, 0 before it is called
    nCreated,   \* how many times the Win32 window was created
    task,       \* per background_work call: the pack and the thread started for it
    work,       \* per ui_work::work call: the heap-allocated std::function
    sendQ,      \* WM_UI_WORK_THREAD messages sent to the UI thread, not yet answered
    uiRun,      \* the work whose function the UI thread is running, 0 if none
    running,    \* <<thread, work>>: the functions being executed right now
    child,      \* the modeless windows and dialogs created with the main window as parent
    modelessChildren,  \* base_main_loop::_modelessChildren of the main window
    nModeless,  \* how many modeless children were created so far
    showPc,     \* where window_modal::show is: "idle", "disabled", "loop", "returned", "threw"
    parentEnabled,  \* whether the parent window of the modal is enabled
    modalLog,   \* what the latest show() call did
    accels,     \* accel_table::_accels
    hAccel,     \* accel_table::_hAccel; 0 is nullptr
    accelLog,   \* what the latest call on the accel_table did
    entries,    \* insert_order_map::_entries
    firstOrder, \* the keys in the order of their first insertion since the last clear()
    mapLog      \* what the latest call on the insert_order_map did

msgVars == <<cls, hWnd, osWin, dwlpUser, setupOpts, msgs, cmds, nfys,
             lastCall, lastExec, boxPc, endResult, nCreated>>

workVars == <<task, work, sendQ, uiRun, running>>

modelessVars == <<child, modelessChildren, nModeless>>

modalVars == <<showPc, parentEnabled, modalLog>>

accelVars == <<accels, hAccel, accelLog>>

mapVars == <<entries, firstOrder, mapLog>>

libVars == <<modalVars, accelVars, mapVars>>

vars == <<msgVars, workVars, modelessVars, libVars>>

-----------------------------------------------------------------------------
(* Bounds *)

\* registrations of user handlers on one object
MaxReg == 2

\* creations of the Win32 window of one object
MaxCreates == 2

\* calls of background_work
MaxTasks == 2

\* calls of ui_work::work
MaxWorks == 2

\* modeless child objects of the main window
MaxChildren == 2

\* accelerators added to one accel_table
MaxAccels == 2

\* different keys put into one insert_order_map
MaxEntries == 3

\* window handles Win32 hands out to modeless children (handles are reused)
MaxHandles == 2

\* creations of modeless children
MaxModeless == 3

-----------------------------------------------------------------------------
(* Win32 constants *)

WM_CREATE == 1
WM_NOTIFY == 78
WM_NCDESTROY == 130
WM_INITDIALOG == 272
WM_COMMAND == 273
WM_APP == 32768
WM_UI_WORK_THREAD == WM_APP + 16383

\* 0xc0def00d as <<high word, low word>>
Magic == <<49374, 61453>>

NULL == 0

\* the one window handle an object of SpecMsg / SpecCreate gets
TheHwnd == 1

LOWORD(w) == w[2]

\* static_cast<int>(UINT): two's complement, 32 bits
ToInt(u) ==
    IF u[1] >= 32768 THEN (u[1] - 65536) * 65536 + u[2]
    ELSE u[1] * 65536 + u[2]

\* (DWORD)i for an int i
ToDword(i) ==
    IF i >= 0 THEN <<i \div 65536, i % 65536>>
    ELSE <<65535 - ((-i - 1) \div 65536), 65535 - ((-i - 1) % 65536)>>

\* std::optional<LRESULT>
None == <<>>

Some(v) == <<v>>

value_or(o, d) == IF o = None THEN d ELSE o[1]

-----------------------------------------------------------------------------
(* store<K>: a vector of (id, func), searched from the last one added *)

nullptr == -1

store_add(s, id, f) == Append(s, [id |-> id, func |-> f])

store_find(s, id) ==
    LET hits == {i \in 1..Len(s) : s[i].id = id}
    IN  IF hits = {} THEN nullptr
        ELSE s[CHOOSE i \in hits : \A j \in hits : j <= i].func

\* the lambda registered by base_msg_handler::_default_msg_handlers
UiWorkFunc == 0

\* every std::function stored so far is a different one: user lambdas are 1, 2, ...
NewFunc == Len(msgs) + Len(cmds) + Len(nfys)

\* lastCall: op, the exception thrown, the state the call found (hBefore, osBefore,
\* before), whether a Win32 creation function was called, whether it failed,
\* the GetLastError() value read and the value returned
NoCall == [op |-> "none", threw |-> "none", hBefore |-> NULL, osBefore |-> "none",
           before |-> <<>>, win32 |-> FALSE, failed |-> FALSE, lerr |-> <<0, 0>>,
           ret |-> 0]

\* lastExec: the message, whether exec ran, the stores it searched, the handler
\* calls it made, what the handler did, exec's result and the procedure's result
NoExec == [valid |-> FALSE, exec |-> FALSE, msg |-> 0, wp |-> <<0, 0>>, lp |-> 0,
           tables |-> <<>>, calls |-> <<>>, out |-> [threw |-> FALSE, val |-> 0],
           ret |-> None, result |-> 0]

\* the NMHDR an LPARAM of WM_NOTIFY points to
NmhdrAt(lp) ==
    IF lp = 1 THEN [idFrom |-> 1, code |-> <<65535, 65534>>]  \* NM_CLICK, (0U - 2U)
    ELSE [idFrom |-> 2, code |-> <<65535, 65533>>]            \* NM_DBLCLK, (0U - 3U)

-----------------------------------------------------------------------------
(* base_msg_handler::exec *)

\* a user lambda either returns val or throws
Outcomes == {[threw |-> FALSE, val |-> 0], [threw |-> FALSE, val |-> 5],
             [threw |-> TRUE, val |-> 0]}

exec_full_wparam(msg, wp, lp, out) ==
    LET userFunc ==
            IF msg = WM_COMMAND THEN store_find(cmds, ToInt(wp))
            ELSE IF msg = WM_NOTIFY
                 THEN store_find(nfys, <<NmhdrAt(lp).idFrom, ToInt(NmhdrAt(lp).code)>>)
                 ELSE store_find(msgs, msg)
    IN  IF userFunc # nullptr
        THEN [calls |-> <<[func |-> userFunc, wp |-> wp, lp |-> lp]>>,
              ret |-> Some(IF out.threw THEN 0 ELSE out.val)]
        ELSE [calls |-> <<>>, ret |-> None]

exec(msg, wp, lp, out) ==
    LET userFunc ==
            IF msg = WM_COMMAND THEN store_find(cmds, LOWORD(wp))
            ELSE IF msg = WM_NOTIFY
                 THEN store_find(nfys, <<NmhdrAt(lp).idFrom, ToInt(NmhdrAt(lp).code)>>)
                 ELSE store_find(msgs, msg)
    IN  IF userFunc # nullptr
        THEN [calls |-> <<[func |-> userFunc, wp |-> wp, lp |-> lp]>>,
              ret |-> Some(IF out.threw THEN 0 ELSE out.val)]
        ELSE [calls |-> <<>>, ret |-> None]

-----------------------------------------------------------------------------
(* base_dialog::on_msg followed by a registration on the returned proxy *)

on_msg_unguarded(tbl, id) ==
    /\ NewFunc <= MaxReg
    /\ lastCall' = [NoCall EXCEPT !.op = "on_msg", !.hBefore = hWnd,
                                  !.osBefore = osWin,
                                  !.before = <<msgs, cmds, nfys>>]
    /\ msgs' = IF tbl = "wm" THEN store_add(msgs, id, NewFunc) ELSE msgs
    /\ cmds' = IF tbl = "wm_command" THEN store_add(cmds, id, NewFunc) ELSE cmds
    /\ nfys' = IF tbl = "wm_notify" THEN store_add(nfys, id, NewFunc) ELSE nfys
    /\ UNCHANGED <<cls, hWnd, osWin, dwlpUser, setupOpts, lastExec, boxPc,
                   endResult, nCreated>>

on_msg(tbl, id) ==
    /\ NewFunc <= MaxReg
    /\ lastCall' = [NoCall EXCEPT !.op = "on_msg", !.hBefore = hWnd,
                                  !.osBefore = osWin,
                                  !.before = <<msgs, cmds, nfys>>,
                                  !.threw = IF hWnd # NULL THEN "logic_error"
                                            ELSE "none"]
    /\ IF hWnd # NULL
       THEN UNCHANGED <<msgs, cmds, nfys>>
       ELSE /\ msgs' = IF tbl = "wm" THEN store_add(msgs, id, NewFunc) ELSE msgs
            /\ cmds' = IF tbl = "wm_command" THEN store_add(cmds, id, NewFunc) ELSE cmds
            /\ nfys' = IF tbl = "wm_notify" THEN store_add(nfys, id, NewFunc) ELSE nfys
    /\ UNCHANGED <<cls, hWnd, osWin, dwlpUser, setupOpts, lastExec, boxPc,
                   endResult, nCreated>>

-----------------------------------------------------------------------------
(* base_dialog::_dialog_proc *)

\* Win32 creates the dialog window; WM_INITDIALOG has not been sent yet
OsCreateDialog ==
    /\ osWin = "none"
    /\ nCreated < MaxCreates
    /\ osWin' = "creating"
    /\ nCreated' = nCreated + 1
    /\ UNCHANGED <<cls, hWnd, dwlpUser, setupOpts, msgs, cmds, nfys,
                   lastCall, lastExec, boxPc, endResult>>

\* The window procedure of the dialog, called by Win32 for message msg.  Win32
\* sends WM_INITDIALOG once, while the window is being created, and WM_NCDESTROY
\* last, after which the window is gone.
dialog_proc(msg, wp, lp, out) ==
    /\ osWin # "none"
    /\ (msg = WM_INITDIALOG) => (osWin = "creating" /\ ~dwlpUser)
    /\ LET pSelf == (msg = WM_INITDIALOG) \/ dwlpUser
           r == exec(msg, wp, lp, out)
       IN  IF ~pSelf
           THEN /\ lastExec' = [NoExec EXCEPT !.valid = TRUE, !.msg = msg,
                                              !.wp = wp, !.lp = lp]
                /\ UNCHANGED <<hWnd, dwlpUser>>
           ELSE /\ lastExec' = [valid |-> TRUE, exec |-> TRUE,
                                msg |-> msg, wp |-> wp, lp |-> lp,
                                tables |-> <<msgs, cmds, nfys>>,
                                calls |-> r.calls,
                                out |-> IF r.calls = <<>> THEN NoExec.out ELSE out,
                                ret |-> r.ret, result |-> value_or(r.ret, 0)]
                /\ hWnd' = IF msg = WM_NCDESTROY THEN NULL
                           ELSE IF msg = WM_INITDIALOG THEN TheHwnd ELSE hWnd
                /\ dwlpUser' = IF msg = WM_NCDESTROY THEN FALSE
                               ELSE IF msg = WM_INITDIALOG THEN TRUE ELSE dwlpUser
    /\ osWin' = IF msg = WM_NCDESTROY THEN "none"
                ELSE IF msg = WM_INITDIALOG THEN "live" ELSE osWin
    /\ UNCHANGED <<cls, setupOpts, msgs, cmds, nfys, lastCall, boxPc, endResult,
                   nCreated>>

-----------------------------------------------------------------------------
(* The state of background_work and ui_work::work *)

Tasks == 1..MaxTasks

Works == 1..MaxWorks

\* task[t].pc: "none" (not called), "nothread" (_beginthreadex returned 0),
\* "ready" (thread created), "infunc" (inside func), "sending" (inside
\* SendMessageW), "funcdone" (func returned or threw), "done" (pack deleted)
NoTask == [pc |-> "none", pack |-> "none", frees |-> 0, hWnd |-> NULL,
           calls |-> 0, by |-> "none"]

\* work[w]: fn is the state of the std::function ("none", "alloc", "deleted"),
\* dels the number of deletes, runs the number of completed runs, execBy the
\* threads that ran it (<<"ui", 0>> or <<"thread", t>>), returned whether work() has returned
NoWork == [fn |-> "none", dels |-> 0, runs |-> 0, execBy |-> {}, sender |-> 0,
           returned |-> FALSE]

InitWork ==
    /\ task = [t \in Tasks |-> NoTask]
    /\ work = [w \in Works |-> NoWork]
    /\ sendQ = <<>>
    /\ uiRun = 0
    /\ running = {}

-----------------------------------------------------------------------------
(* The state of the modeless children of a main window *)

Children == 1..MaxChildren

\* the handles of the modeless children; TheHwnd is the main window's
ChildHandles == (TheHwnd + 1)..(TheHwnd + MaxHandles)

ModelessKinds == {"window_modeless", "dialog_modeless"}

\* child[c]: hWnd is the object's hwnd(), owner what GetWindow(hwnd, GW_OWNER)
\* gives, was the handle of its latest window, toldCreated and toldDestroyed
\* the windows its two notifications were sent to (-1: not sent)
NoChild(k) == [kind |-> k, hWnd |-> NULL, owner |-> NULL, was |-> NULL,
               toldCreated |-> -1, toldDestroyed |-> -1]

InitNoChildren ==
    /\ child = [c \in Children |-> NoChild("window_modeless")]
    /\ modelessChildren = <<>>
    /\ nModeless = 0

-----------------------------------------------------------------------------
(* The state of window_modal::show, of an accel_table and of an              *)
(* insert_order_map                                                          *)

\* modalLog: whether the parent was enabled when the modal window was created
\* ("none" before), whether WM_QUIT was received, which handler destroyed the
\* modal window, and hwnd() at the time show() returned
NoShow == [atCreate |-> "none", quit |-> FALSE, closedBy |-> "none",
           hAtReturn |-> NULL]

InitNoModal ==
    /\ showPc = "idle"
    /\ parentEnabled = TRUE
    /\ modalLog = NoShow

\* accelLog: op, the exception thrown, the state the call found, whether
\* haccel() has returned a handle or nullptr before
NoAccelCall == [op |-> "none", threw |-> "none", before |-> <<>>, hBefore |-> NULL,
                built |-> FALSE, ret |-> NULL]

InitAccel ==
    /\ accels = <<>>
    /\ hAccel = NULL
    /\ accelLog = NoAccelCall

\* mapLog: op, its arguments, _entries before the call, the position the
\* returned iterator points to (1-based) and the returned bool
NoMapCall == [op |-> "none", key |-> 0, val |-> 0, before |-> <<>>, it |-> 0,
              inserted |-> FALSE]

InitMap ==
    /\ entries = <<>>
    /\ firstOrder = <<>>
    /\ mapLog = NoMapCall

InitLib ==
    /\ InitNoModal
    /\ InitAccel
    /\ InitMap

-----------------------------------------------------------------------------
(* SpecMsg: one dialog object, its handler stores and its dialog procedure *)

MsgKeys == {WM_CREATE, WM_NOTIFY, WM_COMMAND}

CmdKeys == {1, 2}

NfyKeys == {<<1, -2>>, <<2, -2>>}

SentMsgs == {WM_CREATE, WM_NOTIFY, WM_COMMAND, WM_INITDIALOG, WM_NCDESTROY}

SentWParams == {<<0, 1>>, <<1, 1>>, <<0, 2>>}

SentLParams == {1, 2}

InitMsg ==
    /\ cls = "dialog_main"
    /\ hWnd = NULL
    /\ osWin = "none"
    /\ dwlpUser = FALSE
    /\ setupOpts = 0
    /\ msgs = <<[id |-> WM_UI_WORK_THREAD, func |-> UiWorkFunc]>>
    /\ cmds = <<>>
    /\ nfys = <<>>
    /\ lastCall = NoCall
    /\ lastExec = NoExec
    /\ boxPc = "idle"
    /\ endResult = 0
    /\ nCreated = 0
    /\ InitWork
    /\ InitNoChildren
    /\ InitLib

NextMsg ==
    /\ UNCHANGED <<workVars, modelessVars, libVars>>
    /\ \/ \E id \in MsgKeys : on_msg("wm", id)
       \/ \E id \in CmdKeys : on_msg("wm_command", id)
       \/ \E id \in NfyKeys : on_msg("wm_notify", id)
       \/ OsCreateDialog
       \/ \E msg \in SentMsgs, wp \in SentWParams, lp \in SentLParams,
             out \in Outcomes :
             dialog_proc(msg, wp, lp, out)

SpecMsg == InitMsg /\ [][NextMsg]_vars

-----------------------------------------------------------------------------
(* setup() of the eight window and dialog classes *)

DialogClasses == {"dialog_main", "dialog_modal", "dialog_modeless", "dialog_control"}

WindowClasses == {"window_main", "window_modal", "window_modeless", "window_control"}

Classes == DialogClasses \cup WindowClasses

\* values of setup_opts::dialog_id (0 is the default, "not set")
DialogIds == {0, 101, 102}

\* Calls of the public API come from the thread that owns the object: between
\* two Win32 creation calls, or from a handler run while the window is live.
CanCall == boxPc = "idle" \/ osWin = "live"

setup_unguarded(v) ==
    /\ CanCall
    /\ lastCall' = [NoCall EXCEPT !.op = "setup", !.hBefore = hWnd,
                                  !.osBefore = osWin, !.before = setupOpts,
                                  !.threw = IF hWnd # NULL /\ cls # "window_control"
                                            THEN "logic_error" ELSE "none"]
    /\ setupOpts' = IF hWnd # NULL /\ cls # "window_control" THEN setupOpts ELSE v
    /\ UNCHANGED <<cls, hWnd, osWin, dwlpUser, msgs, cmds, nfys, lastExec, boxPc,
                   endResult, nCreated>>

\* setup() followed by an assignment of v through the returned reference
setup(v) ==
    /\ CanCall
    /\ lastCall' = [NoCall EXCEPT !.op = "setup", !.hBefore = hWnd,
                                  !.osBefore = osWin, !.before = setupOpts,
                                  !.threw = IF hWnd # NULL THEN "logic_error"
                                            ELSE "none"]
    /\ setupOpts' = IF hWnd # NULL THEN setupOpts ELSE v
    /\ UNCHANGED <<cls, hWnd, osWin, dwlpUser, msgs, cmds, nfys, lastExec, boxPc,
                   endResult, nCreated>>

-----------------------------------------------------------------------------
(* base_dialog::create_dialog_param, dialog_box_param *)

creation_checks_no_id(dialogId) ==
    IF hWnd # NULL THEN "logic_error" ELSE "none"

creation_checks(dialogId) ==
    IF hWnd # NULL THEN "logic_error"
    ELSE IF dialogId = 0 THEN "logic_error"
    ELSE "none"

\* what DialogBoxParamW leaves in GetLastError() when it fails
FailErrs == {ToDword(1814), ToDword(1400)}

\* what GetLastError() may hold after a DialogBoxParamW that did not fail
LeftErrs == {ToDword(0), ToDword(1400), ToDword(-1)}

\* the values the handlers pass to EndDialog (IDOK, IDCANCEL)
EndResults == {1, 2}

\* dialog_main::run_as_main, dialog_modeless::create and dialog_control::create
\* up to the call of CreateDialogParamW; fails: Win32 creates no window
create_dialog_param(fails) ==
    /\ cls \in DialogClasses \ {"dialog_modal"}
    /\ CanCall
    /\ LET chk == creation_checks(setupOpts)
           call == [NoCall EXCEPT !.op = "create_dialog_param", !.hBefore = hWnd,
                                  !.osBefore = osWin, !.before = setupOpts]
       IN  IF chk # "none"
           THEN /\ lastCall' = [call EXCEPT !.threw = chk]
                /\ UNCHANGED <<osWin, boxPc, nCreated>>
           ELSE IF fails
           THEN /\ lastCall' = [call EXCEPT !.win32 = TRUE, !.failed = TRUE,
                                            !.threw = "system_error"]
                /\ UNCHANGED <<osWin, boxPc, nCreated>>
           ELSE /\ nCreated < MaxCreates
                /\ lastCall' = [call EXCEPT !.win32 = TRUE]
                /\ osWin' = "creating"
                /\ boxPc' = "CreateDialogParamW"
                /\ nCreated' = nCreated + 1
    /\ UNCHANGED <<cls, hWnd, dwlpUser, setupOpts, msgs, cmds, nfys, lastExec,
                   endResult>>

\* CreateDialogParamW returns the handle after WM_INITDIALOG was processed
create_dialog_param_return ==
    /\ boxPc = "CreateDialogParamW"
    /\ osWin = "live"
    /\ boxPc' = "idle"
    /\ lastCall' = [NoCall EXCEPT !.op = "create_dialog_param", !.win32 = TRUE,
                                  !.before = setupOpts, !.ret = TheHwnd]
    /\ UNCHANGED <<cls, hWnd, osWin, dwlpUser, setupOpts, msgs, cmds, nfys,
                   lastExec, endResult, nCreated>>

\* the end of dialog_box_param: GetLastError(), the test of it and the return
box_result(call, ret, lerr) ==
    [call EXCEPT !.lerr = lerr, !.ret = ret,
                 !.threw = IF lerr = ToDword(-1) THEN "system_error" ELSE "none"]

\* dialog_modal::show up to the call of DialogBoxParamW; fails: DialogBoxParamW
\* creates no dialog and returns -1 with lerr as the last error
dialog_box_param(fails, lerr) ==
    /\ cls = "dialog_modal"
    /\ CanCall
    /\ LET chk == creation_checks(setupOpts)
           call == [NoCall EXCEPT !.op = "dialog_box_param", !.hBefore = hWnd,
                                  !.osBefore = osWin, !.before = setupOpts]
       IN  IF chk # "none"
           THEN /\ lastCall' = [call EXCEPT !.threw = chk]
                /\ UNCHANGED <<osWin, boxPc, nCreated>>
           ELSE IF fails
           THEN /\ lastCall' = box_result([call EXCEPT !.win32 = TRUE,
                                                       !.failed = TRUE], -1, lerr)
                /\ UNCHANGED <<osWin, boxPc, nCreated>>
           ELSE /\ nCreated < MaxCreates
                /\ lastCall' = [call EXCEPT !.win32 = TRUE]
                /\ osWin' = "creating"
                /\ boxPc' = "DialogBoxParamW"
                /\ nCreated' = nCreated + 1
    /\ UNCHANGED <<cls, hWnd, dwlpUser, setupOpts, msgs, cmds, nfys, lastExec,
                   endResult>>

\* a handler of the modal dialog calls EndDialog(hwnd(), res)
EndDialog(res) ==
    /\ boxPc = "DialogBoxParamW"
    /\ osWin = "live"
    /\ endResult = 0
    /\ endResult' = res
    /\ UNCHANGED <<cls, hWnd, osWin, dwlpUser, setupOpts, msgs, cmds, nfys,
                   lastCall, lastExec, boxPc, nCreated>>

\* DialogBoxParamW returns the EndDialog value once the dialog is destroyed
dialog_box_param_return(lerr) ==
    /\ boxPc = "DialogBoxParamW"
    /\ osWin = "none"
    /\ boxPc' = "idle"
    /\ endResult' = 0
    /\ lastCall' = box_result([NoCall EXCEPT !.op = "dialog_box_param",
                                             !.win32 = TRUE, !.before = setupOpts],
                              endResult, lerr)
    /\ UNCHANGED <<cls, hWnd, osWin, dwlpUser, setupOpts, msgs, cmds, nfys,
                   lastExec, nCreated>>

\* base_window::create_window: the window exists and its HWND is stored
create_window ==
    /\ cls \in WindowClasses
    /\ boxPc = "idle"
    /\ hWnd = NULL
    /\ osWin = "none"
    /\ nCreated < MaxCreates
    /\ hWnd' = TheHwnd
    /\ osWin' = "live"
    /\ nCreated' = nCreated + 1
    /\ UNCHANGED <<cls, dwlpUser, setupOpts, msgs, cmds, nfys, lastCall, lastExec,
                   boxPc, endResult>>

\* base_window's window procedure on WM_NCDESTROY: the stored HWND is cleared
window_nc_destroy ==
    /\ cls \in WindowClasses
    /\ osWin = "live"
    /\ hWnd' = NULL
    /\ osWin' = "none"
    /\ UNCHANGED <<cls, dwlpUser, setupOpts, msgs, cmds, nfys, lastCall, lastExec,
                   boxPc, endResult, nCreated>>

-----------------------------------------------------------------------------
(* SpecCreate: one object of any of the eight classes: setup, creation,       *)
(* destruction                                                                *)

InitCreate ==
    /\ cls \in Classes
    /\ hWnd = NULL
    /\ osWin = "none"
    /\ dwlpUser = FALSE
    /\ setupOpts = 0
    /\ msgs = <<[id |-> WM_UI_WORK_THREAD, func |-> UiWorkFunc]>>
    /\ cmds = <<>>
    /\ nfys = <<>>
    /\ lastCall = NoCall
    /\ lastExec = NoExec
    /\ boxPc = "idle"
    /\ endResult = 0
    /\ nCreated = 0
    /\ InitWork
    /\ InitNoChildren
    /\ InitLib

NextCreate ==
    /\ UNCHANGED <<workVars, modelessVars, libVars>>
    /\ \/ \E v \in DialogIds : setup(v)
       \/ \E fails \in BOOLEAN : create_dialog_param(fails)
       \/ create_dialog_param_return
       \/ \E lerr \in FailErrs : dialog_box_param(TRUE, lerr)
       \/ dialog_box_param(FALSE, ToDword(0))
       \/ \E res \in EndResults : EndDialog(res)
       \/ \E lerr \in LeftErrs : dialog_box_param_return(lerr)
       \/ /\ cls \in DialogClasses
          /\ dialog_proc(WM_INITDIALOG, <<0, 0>>, 0, NoExec.out)
       \/ /\ cls \in DialogClasses
          /\ osWin = "live"
          /\ boxPc = "DialogBoxParamW" => endResult # 0
          /\ dialog_proc(WM_NCDESTROY, <<0, 0>>, 0, NoExec.out)
       \/ create_window
       \/ window_nc_destroy

SpecCreate == InitCreate /\ [][NextCreate]_vars

-----------------------------------------------------------------------------
(* base_msg_handler::background_work, ui_work::work and the handler of          *)
(* WM_UI_WORK_THREAD                                                            *)

NewTask == Cardinality({t \in Tasks : task[t].pc # "none"}) + 1

NewWork == Cardinality({w \in Works : work[w].fn # "none"}) + 1

\* background_work(func) called on the thread that owns the window: the pack is
\* allocated with the current _hWnd, _beginthreadex either starts a thread
\* (started) or returns 0, and the call returns
background_work(started) ==
    /\ NewTask \in Tasks
    /\ uiRun = 0
    /\ CanCall
    /\ task' = [task EXCEPT ![NewTask] =
                    [NoTask EXCEPT !.pc = IF started THEN "ready" ELSE "nothread",
                                   !.pack = "alloc", !.hWnd = hWnd]]
    /\ UNCHANGED <<msgVars, modelessVars, libVars, work, sendQ, uiRun, running>>

\* the thread procedure invokes pPack->func(ui_work{pPack->hWnd})
thread_invoke(t) ==
    /\ task[t].pc = "ready"
    /\ task' = [task EXCEPT ![t].pc = "infunc", ![t].calls = @ + 1,
                            ![t].by = <<"thread", t>>]
    /\ UNCHANGED <<msgVars, modelessVars, libVars, work, sendQ, uiRun, running>>

\* func returns or throws (catch_all_excps swallows the exception)
thread_func_end(t) ==
    /\ task[t].pc = "infunc"
    /\ task' = [task EXCEPT ![t].pc = "funcdone"]
    /\ UNCHANGED <<msgVars, modelessVars, libVars, work, sendQ, uiRun, running>>

\* delete pPack; _endthreadex(0)
thread_delete_pack(t) ==
    /\ task[t].pc = "funcdone"
    /\ task' = [task EXCEPT ![t].pc = "done", ![t].pack = "freed",
                            ![t].frees = @ + 1]
    /\ UNCHANGED <<msgVars, modelessVars, libVars, work, sendQ, uiRun, running>>

\* whether SendMessageW finds a window under handle h
IsWindow(h) == h # NULL /\ h = TheHwnd /\ osWin # "none"

ui_work_direct(t) ==
    /\ task[t].pc = "infunc"
    /\ NewWork \in Works
    /\ work' = [work EXCEPT ![NewWork] =
                    [NoWork EXCEPT !.fn = "deleted", !.dels = 1, !.runs = 1,
                                   !.execBy = {<<"thread", t>>}, !.sender = t,
                                   !.returned = TRUE]]
    /\ UNCHANGED <<msgVars, modelessVars, libVars, task, sendQ, uiRun, running>>

\* ui_work::work(func) on background thread t: new std::function, then
\* SendMessageW(_hWnd, WM_UI_WORK_THREAD, 0xc0def00d, pFunc), which fails at
\* once without a window and otherwise blocks until the UI thread has answered
ui_work(t) ==
    /\ task[t].pc = "infunc"
    /\ NewWork \in Works
    /\ IF IsWindow(task[t].hWnd)
       THEN /\ work' = [work EXCEPT ![NewWork] =
                           [NoWork EXCEPT !.fn = "alloc", !.sender = t]]
            /\ sendQ' = Append(sendQ, [msg |-> WM_UI_WORK_THREAD, wp |-> Magic,
                                       lp |-> NewWork])
            /\ task' = [task EXCEPT ![t].pc = "sending"]
       ELSE /\ work' = [work EXCEPT ![NewWork] =
                           [NoWork EXCEPT !.fn = "alloc", !.sender = t,
                                          !.returned = TRUE]]
            /\ UNCHANGED <<sendQ, task>>
    /\ UNCHANGED <<msgVars, modelessVars, libVars, uiRun, running>>

\* SendMessageW returns to the senders of the messages in q
Answered(q) == {q[i].lp : i \in 1..Len(q)}

Resume(tk, ws) ==
    [t \in Tasks |-> IF \E w \in ws : work[w].sender = t /\ tk[t].pc = "sending"
                     THEN [tk[t] EXCEPT !.pc = "infunc"] ELSE tk[t]]

\* The UI thread takes the next sent message and runs the dialog procedure on
\* it.  With the handler found and wParam and lParam as the handler expects,
\* the function starts running; otherwise the message is answered at once.
ui_dispatch ==
    /\ sendQ # <<>>
    /\ uiRun = 0
    /\ osWin # "none"
    /\ LET m == Head(sendQ)
           r == exec(m.msg, m.wp, m.lp, NoExec.out)
       IN  IF /\ dwlpUser
              /\ r.calls # <<>>
              /\ r.calls[1].func = UiWorkFunc
              /\ m.wp = Magic
              /\ m.lp # 0
           THEN /\ uiRun' = m.lp
                /\ running' = running \cup {<<"ui", m.lp>>}
                /\ work' = [work EXCEPT ![m.lp].execBy = @ \cup {<<"ui", 0>>}]
                /\ UNCHANGED <<sendQ, task>>
           ELSE /\ sendQ' = Tail(sendQ)
                /\ work' = [work EXCEPT ![m.lp].returned = TRUE]
                /\ task' = Resume(task, {m.lp})
                /\ UNCHANGED <<uiRun, running>>
    /\ UNCHANGED <<msgVars, modelessVars, libVars>>

\* the function returns or throws on the UI thread; delete pFunc; return 0, and
\* SendMessageW returns on the sending thread
ui_handler_end ==
    /\ uiRun # 0
    /\ work' = [work EXCEPT ![uiRun].runs = @ + 1, ![uiRun].fn = "deleted",
                            ![uiRun].dels = @ + 1, ![uiRun].returned = TRUE]
    /\ running' = running \ {<<"ui", uiRun>>}
    /\ uiRun' = 0
    /\ sendQ' = Tail(sendQ)
    /\ task' = Resume(task, {uiRun})
    /\ UNCHANGED <<msgVars, modelessVars, libVars>>

\* The UI thread runs the dialog procedure for WM_INITDIALOG or WM_NCDESTROY.
\* When the window is destroyed, the SendMessageW calls waiting on it fail.
ui_window_step(msg) ==
    /\ uiRun = 0
    /\ dialog_proc(msg, <<0, 0>>, 0, NoExec.out)
    /\ IF msg = WM_NCDESTROY
       THEN /\ sendQ' = <<>>
            /\ work' = [w \in Works |-> IF w \in Answered(sendQ)
                                         THEN [work[w] EXCEPT !.returned = TRUE]
                                         ELSE work[w]]
            /\ task' = Resume(task, Answered(sendQ))
       ELSE UNCHANGED <<sendQ, work, task>>
    /\ UNCHANGED <<uiRun, running, modelessVars, libVars>>

-----------------------------------------------------------------------------
(* SpecWork: one dialog, the background threads started from it and the       *)
(* functions they hand to the UI thread                                       *)

NextWork ==
    \/ \E started \in BOOLEAN : background_work(started)
    \/ \E t \in Tasks : thread_invoke(t)
    \/ \E t \in Tasks : ui_work(t)
    \/ \E t \in Tasks : thread_func_end(t)
    \/ \E t \in Tasks : thread_delete_pack(t)
    \/ ui_dispatch
    \/ ui_handler_end
    \/ uiRun = 0 /\ OsCreateDialog /\ UNCHANGED <<workVars, modelessVars, libVars>>
    \/ ui_window_step(WM_INITDIALOG)
    \/ ui_window_step(WM_NCDESTROY)

SpecWork == InitMsg /\ [][NextWork]_vars

-----------------------------------------------------------------------------
(* window_main's handlers of WM_MODELESS_CREATED / WM_MODELESS_DESTROYED,      *)
(* window_modeless and dialog_modeless                                        *)

WM_MODELESS_CREATED == WM_APP + 16381

WM_MODELESS_DESTROYED == WM_APP + 16382

\* the two lambdas window_main::_default_msg_handlers registers for them
ModelessCreatedFunc == 1

ModelessDestroyedFunc == 2

\* base_main_loop::add_modeless_child
add_modeless_child(list, h) == Append(list, h)

\* base_main_loop::delete_modeless_child: the first entry equal to h is erased
delete_modeless_child(list, h) ==
    LET hits == {i \in 1..Len(list) : list[i] = h}
    IN  IF hits = {} THEN list
        ELSE LET k == CHOOSE i \in hits : \A j \in hits : i <= j
             IN  SubSeq(list, 1, k - 1) \o SubSeq(list, k + 1, Len(list))

wm_modeless_created_any_wparam(list, wp, lp) == add_modeless_child(list, lp)

wm_modeless_created(list, wp, lp) ==
    IF wp = Magic THEN add_modeless_child(list, lp) ELSE list

wm_modeless_destroyed(list, wp, lp) ==
    IF wp = Magic THEN delete_modeless_child(list, lp) ELSE list

\* SendMessageW(target, msg, wp, lp) from the UI thread: the window procedure
\* of the main window runs exec, which runs the handler stored for msg; a
\* target that is no window makes SendMessageW fail
SendToMain(list, target, msg, wp, lp) ==
    IF target = NULL \/ target # hWnd THEN list
    ELSE LET r == exec(msg, wp, lp, NoExec.out)
         IN  IF r.calls = <<>> THEN list
             ELSE IF r.calls[1].func = ModelessCreatedFunc
                  THEN wm_modeless_created(list, wp, lp)
             ELSE IF r.calls[1].func = ModelessDestroyedFunc
                  THEN wm_modeless_destroyed(list, wp, lp)
             ELSE list

\* the owner Win32 gives the new window: window_modeless passes the parent to
\* create_window, dialog_modeless passes nullptr to create_dialog_param
OwnerGiven(kind, parentHwnd) ==
    IF kind = "window_modeless" THEN parentHwnd ELSE NULL

\* window_modeless::create(parent) / dialog_modeless::create(parent), parent
\* being the main window; h is the handle Win32 gives the new window
modeless_create(c, h) ==
    /\ hWnd # NULL
    /\ child[c].hWnd = NULL
    /\ nModeless < MaxModeless
    /\ \A d \in Children : child[d].hWnd # h
    /\ child' = [child EXCEPT ![c] =
                     [@ EXCEPT !.hWnd = h, !.was = h,
                               !.owner = OwnerGiven(child[c].kind, hWnd),
                               !.toldCreated = hWnd, !.toldDestroyed = -1]]
    /\ modelessChildren' =
           SendToMain(modelessChildren, hWnd, WM_MODELESS_CREATED, Magic, h)
    /\ nModeless' = nModeless + 1
    /\ UNCHANGED <<msgVars, workVars, libVars>>

\* the list after the WM_NCDESTROY handlers of the children in cs have run
RECURSIVE AfterDestroyOf(_, _)
AfterDestroyOf(list, cs) ==
    IF cs = {} THEN list
    ELSE LET c == CHOOSE x \in cs : TRUE
         IN  AfterDestroyOf(
                 SendToMain(list, child[c].owner, WM_MODELESS_DESTROYED, Magic,
                            child[c].hWnd),
                 cs \ {c})

Destroyed(ch, cs) ==
    [c \in Children |->
        IF c \in cs
        THEN [ch[c] EXCEPT !.hWnd = NULL, !.owner = NULL,
                           !.toldDestroyed = ch[c].owner]
        ELSE ch[c]]

\* the child's window procedure on WM_NCDESTROY: the default handler sends
\* WM_MODELESS_DESTROYED to GetWindow(hwnd(), GW_OWNER), then the HWND is cleared
modeless_nc_destroy(c) ==
    /\ child[c].hWnd # NULL
    /\ modelessChildren' = AfterDestroyOf(modelessChildren, {c})
    /\ child' = Destroyed(child, {c})
    /\ UNCHANGED <<msgVars, workVars, libVars, nModeless>>

\* some window sends the main window one of the two messages with a wParam
\* that is not 0xc0def00d
main_gets_other_wparam(msg, wp, lp) ==
    /\ hWnd # NULL
    /\ wp # Magic
    /\ modelessChildren' = SendToMain(modelessChildren, hWnd, msg, wp, lp)
    /\ UNCHANGED <<msgVars, workVars, libVars, child, nModeless>>

\* DestroyWindow on the main window: Win32 destroys the windows it owns first,
\* each running its WM_NCDESTROY handler, then the main window itself
main_destroy ==
    /\ hWnd # NULL
    /\ LET owned == {c \in Children : child[c].hWnd # NULL /\ child[c].owner = hWnd}
       IN  /\ modelessChildren' = AfterDestroyOf(modelessChildren, owned)
           /\ child' = Destroyed(child, owned)
    /\ hWnd' = NULL
    /\ osWin' = "none"
    /\ UNCHANGED <<cls, dwlpUser, setupOpts, msgs, cmds, nfys, lastCall, lastExec,
                   boxPc, endResult, nCreated, workVars, nModeless, libVars>>

-----------------------------------------------------------------------------
(* SpecModeless: a created window_main and its modeless children              *)

InitModeless ==
    /\ cls = "window_main"
    /\ hWnd = TheHwnd
    /\ osWin = "live"
    /\ dwlpUser = FALSE
    /\ setupOpts = 0
    /\ msgs = <<[id |-> WM_UI_WORK_THREAD, func |-> UiWorkFunc],
                [id |-> WM_MODELESS_CREATED, func |-> ModelessCreatedFunc],
                [id |-> WM_MODELESS_DESTROYED, func |-> ModelessDestroyedFunc]>>
    /\ cmds = <<>>
    /\ nfys = <<>>
    /\ lastCall = NoCall
    /\ lastExec = NoExec
    /\ boxPc = "idle"
    /\ endResult = 0
    /\ nCreated = 1
    /\ InitWork
    /\ \E k \in [Children -> ModelessKinds] :
          child = [c \in Children |-> NoChild(k[c])]
    /\ modelessChildren = <<>>
    /\ nModeless = 0
    /\ InitLib

\* wParam values other than 0xc0def00d, one sharing its low word
OtherWParams == {<<0, 0>>, <<0, 61453>>}

NextModeless ==
    \/ \E c \in Children, h \in ChildHandles : modeless_create(c, h)
    \/ \E c \in Children : modeless_nc_destroy(c)
    \/ \E msg \in {WM_MODELESS_CREATED, WM_MODELESS_DESTROYED},
          wp \in OtherWParams, lp \in ChildHandles :
          main_gets_other_wparam(msg, wp, lp)
    \/ main_destroy

SpecModeless == InitModeless /\ [][NextModeless]_vars

-----------------------------------------------------------------------------
(* SpecModal: a window_modal, its parent window and the modal loop of show() *)

WM_SETFOCUS == 7
WM_CLOSE == 16

\* the lambdas registered by window_modal::_default_msg_handlers
ModalSetFocusFunc == 1

ModalCloseFunc == 2

\* the stores of a window_modal after its constructor
ModalDefaults == <<[id |-> WM_UI_WORK_THREAD, func |-> UiWorkFunc],
                   [id |-> WM_SETFOCUS, func |-> ModalSetFocusFunc],
                   [id |-> WM_CLOSE, func |-> ModalCloseFunc]>>

\* the parent after a wm_close handler that only destroys the modal
modal_wm_close_no_enable(enabled) == enabled

\* the parent after the default wm_close handler:
\* EnableWindow(GetWindow(hwnd(), GW_OWNER), TRUE), before DestroyWindow
modal_wm_close(enabled) == TRUE

\* show(parent), up to EnableWindow(parent->hwnd(), FALSE); without a parent
\* it throws std::invalid_argument
show_disable_parent(parentGiven) ==
    /\ cls = "window_modal"
    /\ showPc \in {"idle", "returned", "threw"}
    /\ hWnd = NULL
    /\ nCreated < MaxCreates
    /\ modalLog' = NoShow
    /\ IF parentGiven
       THEN /\ parentEnabled' = FALSE
            /\ showPc' = "disabled"
       ELSE /\ showPc' = "threw"
            /\ UNCHANGED parentEnabled
    /\ UNCHANGED <<msgVars, workVars, modelessVars, accelVars, mapVars>>

\* show(parent), from create_window to the entry of the modal loop;
\* create_window throws when CreateWindowExW fails
show_create_window(fails) ==
    /\ showPc = "disabled"
    /\ IF fails
       THEN /\ showPc' = "threw"
            /\ UNCHANGED <<hWnd, osWin, nCreated, modalLog>>
       ELSE /\ showPc' = "loop"
            /\ hWnd' = TheHwnd
            /\ osWin' = "live"
            /\ nCreated' = nCreated + 1
            /\ modalLog' = [modalLog EXCEPT !.atCreate =
                               IF parentEnabled THEN "enabled" ELSE "disabled"]
    /\ UNCHANGED <<cls, dwlpUser, setupOpts, msgs, cmds, nfys, lastCall, lastExec,
                   boxPc, endResult, parentEnabled, workVars, modelessVars,
                   accelVars, mapVars>>

\* the results of GetMessageW
GetMessageResults == {-1, 0, 1}

\* the messages the modal window gets while the loop runs
ModalMsgs == {WM_CLOSE, WM_SETFOCUS, WM_COMMAND}

\* One turn of _run_modal_loop.  GetMessageW gives -1 (the loop throws), 0
\* (WM_QUIT: the loop ends) or a message for the modal window, which
\* IsDialogMessageW or DispatchMessageW hands to the window procedure; a user
\* handler may call DestroyWindow(hwnd()).  Both paths leave the loop when
\* hwnd() has become null.
run_modal_loop(gmRet, msg, wp, isDlgMsg, userDestroys) ==
    /\ showPc = "loop"
    /\ IF gmRet = -1
       THEN /\ showPc' = "threw"
            /\ UNCHANGED <<hWnd, osWin, lastExec, parentEnabled, modalLog>>
       ELSE IF gmRet = 0
       THEN /\ showPc' = "returned"
            /\ modalLog' = [modalLog EXCEPT !.quit = TRUE, !.hAtReturn = hWnd]
            /\ UNCHANGED <<hWnd, osWin, lastExec, parentEnabled>>
       ELSE LET r == exec(msg, wp, 0, NoExec.out)
                f == IF r.calls = <<>> THEN nullptr ELSE r.calls[1].func
                user == f # nullptr /\ f >= Len(ModalDefaults)
                destroyed == f = ModalCloseFunc \/ (user /\ userDestroys)
                h == IF destroyed THEN NULL ELSE hWnd
            IN  /\ lastExec' = [NoExec EXCEPT !.valid = TRUE, !.exec = TRUE,
                                              !.msg = msg, !.wp = wp,
                                              !.calls = r.calls, !.ret = r.ret]
                /\ parentEnabled' = IF f = ModalCloseFunc
                                    THEN modal_wm_close(parentEnabled)
                                    ELSE parentEnabled
                /\ hWnd' = h
                /\ osWin' = IF destroyed THEN "none" ELSE osWin
                /\ IF isDlgMsg
                   THEN IF h = NULL
                        THEN /\ showPc' = "returned"
                             /\ modalLog' = [modalLog EXCEPT
                                    !.closedBy = IF user THEN "user" ELSE "wm_close",
                                    !.hAtReturn = h]
                        ELSE UNCHANGED <<showPc, modalLog>>
                   ELSE IF h = NULL
                        THEN /\ showPc' = "returned"
                             /\ modalLog' = [modalLog EXCEPT
                                    !.closedBy = IF user THEN "user" ELSE "wm_close",
                                    !.hAtReturn = h]
                        ELSE UNCHANGED <<showPc, modalLog>>
    /\ UNCHANGED <<cls, dwlpUser, setupOpts, msgs, cmds, nfys, lastCall, boxPc,
                   endResult, nCreated, workVars, modelessVars, accelVars, mapVars>>

\* the handlers the program registered before show(): its own wm_close handler
\* or not, a handler of command 1 or not
InitModal ==
    /\ cls = "window_modal"
    /\ hWnd = NULL
    /\ osWin = "none"
    /\ dwlpUser = FALSE
    /\ setupOpts = 0
    /\ \E userClose \in BOOLEAN :
          msgs = IF userClose
                 THEN store_add(ModalDefaults, WM_CLOSE, Len(ModalDefaults))
                 ELSE ModalDefaults
    /\ \E userCmd \in BOOLEAN :
          cmds = IF userCmd THEN store_add(<<>>, 1, Len(msgs)) ELSE <<>>
    /\ nfys = <<>>
    /\ lastCall = NoCall
    /\ lastExec = NoExec
    /\ boxPc = "idle"
    /\ endResult = 0
    /\ nCreated = 0
    /\ InitWork
    /\ InitNoChildren
    /\ InitLib

NextModal ==
    \/ \E parentGiven \in BOOLEAN : show_disable_parent(parentGiven)
    \/ \E fails \in BOOLEAN : show_create_window(fails)
    \/ \E gmRet \in GetMessageResults, msg \in ModalMsgs, wp \in SentWParams,
          isDlgMsg \in BOOLEAN, userDestroys \in BOOLEAN :
          run_modal_loop(gmRet, msg, wp, isDlgMsg, userDestroys)

SpecModal == InitModal /\ [][NextModal]_vars

-----------------------------------------------------------------------------
(* SpecAccel: one accel_table *)

\* accel_table::modif
FVIRTKEY == 1
FCONTROL == 8

Modifs == {FVIRTKEY, FVIRTKEY + FCONTROL}

\* the handle CreateAcceleratorTableW returns
TheHaccel == 1

\* CharUpperBuffW on one character
CharUpper(ch) == IF ch >= 97 /\ ch <= 122 THEN ch - 32 ELSE ch

\* static_cast<WORD>(cmdId)
ToWord(i) == i % 65536

Chars == {65, 97}

VKeys == {112}

CmdIds == {1, 65538}

\* whether haccel() has returned since the table was constructed or destroyed
HaccelCalled == accelLog.built

add_char(ch, modifiers, cmdId) ==
    /\ Len(accels) < MaxAccels
    /\ accelLog' = [NoAccelCall EXCEPT !.op = "add_char", !.before = accels,
                                       !.hBefore = hAccel, !.built = HaccelCalled,
                                       !.threw = IF hAccel # NULL THEN "logic_error"
                                                 ELSE "none"]
    /\ accels' = IF hAccel # NULL THEN accels
                 ELSE Append(accels, <<modifiers, CharUpper(ch), ToWord(cmdId)>>)
    /\ UNCHANGED hAccel

add_key(vKey, modifiers, cmdId) ==
    /\ Len(accels) < MaxAccels
    /\ accelLog' = [NoAccelCall EXCEPT !.op = "add_key", !.before = accels,
                                       !.hBefore = hAccel, !.built = HaccelCalled,
                                       !.threw = IF hAccel # NULL THEN "logic_error"
                                                 ELSE "none"]
    /\ accels' = IF hAccel # NULL THEN accels
                 ELSE Append(accels, <<modifiers, vKey, ToWord(cmdId)>>)
    /\ UNCHANGED hAccel

\* haccel(): _build, then return _hAccel.  _build creates the table only when
\* there is none yet and _accels is not empty, throws std::system_error when
\* CreateAcceleratorTableW fails and otherwise clears _accels.
haccel(createFails) ==
    /\ IF hAccel = NULL /\ Len(accels) # 0
       THEN IF createFails
            THEN /\ accelLog' = [NoAccelCall EXCEPT !.op = "haccel",
                                     !.before = accels, !.hBefore = hAccel,
                                     !.built = HaccelCalled,
                                     !.threw = "system_error"]
                 /\ UNCHANGED <<accels, hAccel>>
            ELSE /\ hAccel' = TheHaccel
                 /\ accels' = <<>>
                 /\ accelLog' = [NoAccelCall EXCEPT !.op = "haccel",
                                     !.before = accels, !.hBefore = hAccel,
                                     !.built = TRUE, !.ret = TheHaccel]
       ELSE /\ accelLog' = [NoAccelCall EXCEPT !.op = "haccel",
                                !.before = accels, !.hBefore = hAccel,
                                !.built = TRUE, !.ret = hAccel]
            /\ UNCHANGED <<accels, hAccel>>

\* destroy(): with a handle, DestroyAcceleratorTable, _hAccel = nullptr and
\* _accels.clear(); without one, nothing
destroy ==
    /\ accelLog' = [NoAccelCall EXCEPT !.op = "destroy", !.before = accels,
                                       !.hBefore = hAccel,
                                       !.built = HaccelCalled /\ hAccel = NULL]
    /\ IF hAccel # NULL
       THEN /\ hAccel' = NULL
            /\ accels' = <<>>
       ELSE UNCHANGED <<accels, hAccel>>

\* the state an accel_table call leaves alone
NotAccel == <<msgVars, workVars, modelessVars, modalVars, mapVars>>

NextAccel ==
    \/ \E ch \in Chars, m \in Modifs, id \in CmdIds :
          add_char(ch, m, id) /\ UNCHANGED NotAccel
    \/ \E k \in VKeys, m \in Modifs, id \in CmdIds :
          add_key(k, m, id) /\ UNCHANGED NotAccel
    \/ \E createFails \in BOOLEAN : haccel(createFails) /\ UNCHANGED NotAccel
    \/ destroy /\ UNCHANGED NotAccel

SpecAccel == InitMsg /\ [][NextAccel]_vars

-----------------------------------------------------------------------------
(* SpecMap: one insert_order_map<K, V> *)

\* the keys and the values the program uses
Keys == 1..MaxEntries

Vals == {1, 2}

\* V{}: the value of an entry constructed from its key alone
DefaultVal == 0

\* (size_t)i for an int i, on a 32-bit build
ToSizeT(i) == ToDword(i)

\* the keys of a vector of entries, in the order of begin() .. end()
KeysOf(es) == [i \in 1..Len(es) |-> es[i].key]

find_idx_last_only(es, key) ==
    IF Len(es) > 0 /\ es[Len(es)].key = key THEN ToSizeT(Len(es) - 1)
    ELSE ToSizeT(-1)

\* _find_idx: the 0-based index of the first entry with the key, or -1 as size_t
find_idx(es, key) ==
    LET hits == {i \in 1..Len(es) : es[i].key = key}
    IN  IF hits = {} THEN ToSizeT(-1)
        ELSE ToSizeT((CHOOSE i \in hits : \A j \in hits : i <= j) - 1)

\* the order of first insertion, kept beside the map
Inserted(order, key) ==
    IF \E i \in 1..Len(order) : order[i] = key THEN order ELSE Append(order, key)

emplace_overwrites(key, val) ==
    LET idx == find_idx(entries, key)
    IN  /\ Len(entries) <= MaxEntries
        /\ IF idx = ToSizeT(-1)
           THEN /\ entries' = Append(entries, [key |-> key, val |-> val])
                /\ mapLog' = [op |-> "emplace", key |-> key, val |-> val,
                              before |-> entries, it |-> Len(entries) + 1,
                              inserted |-> TRUE]
           ELSE /\ entries' = [entries EXCEPT ![ToInt(idx) + 1].val = val]
                /\ mapLog' = [op |-> "emplace", key |-> key, val |-> val,
                              before |-> entries, it |-> ToInt(idx) + 1,
                              inserted |-> FALSE]
        /\ firstOrder' = Inserted(firstOrder, key)

\* emplace(key, val): {--end(), true} after emplace_back when the key is not
\* found, {begin() + idx, false} otherwise
emplace(key, val) ==
    LET idx == find_idx(entries, key)
    IN  /\ Len(entries) <= MaxEntries
        /\ IF idx = ToSizeT(-1)
           THEN /\ entries' = Append(entries, [key |-> key, val |-> val])
                /\ mapLog' = [op |-> "emplace", key |-> key, val |-> val,
                              before |-> entries, it |-> Len(entries) + 1,
                              inserted |-> TRUE]
           ELSE /\ entries' = entries
                /\ mapLog' = [op |-> "emplace", key |-> key, val |-> val,
                              before |-> entries, it |-> ToInt(idx) + 1,
                              inserted |-> FALSE]
        /\ firstOrder' = Inserted(firstOrder, key)

\* emplace(key): the same with an entry constructed from the key alone
emplace_key(key) ==
    LET idx == find_idx(entries, key)
    IN  /\ Len(entries) <= MaxEntries
        /\ IF idx = ToSizeT(-1)
           THEN /\ entries' = Append(entries, [key |-> key, val |-> DefaultVal])
                /\ mapLog' = [op |-> "emplace_key", key |-> key, val |-> DefaultVal,
                              before |-> entries, it |-> Len(entries) + 1,
                              inserted |-> TRUE]
           ELSE /\ entries' = entries
                /\ mapLog' = [op |-> "emplace_key", key |-> key, val |-> DefaultVal,
                              before |-> entries, it |-> ToInt(idx) + 1,
                              inserted |-> FALSE]
        /\ firstOrder' = Inserted(firstOrder, key)

\* operator[](key), the returned V& read (assign FALSE) or assigned val:
\* emplace(key).first->val when the key is not found, _entries[idx].val otherwise
subscript(key, assign, val) ==
    LET idx == find_idx(entries, key)
        es == IF idx = ToSizeT(-1)
              THEN Append(entries, [key |-> key, val |-> DefaultVal])
              ELSE entries
        at == IF idx = ToSizeT(-1) THEN Len(es) ELSE ToInt(idx) + 1
    IN  /\ Len(entries) <= MaxEntries
        /\ entries' = IF assign THEN [es EXCEPT ![at].val = val] ELSE es
        /\ mapLog' = [op |-> "subscript", key |-> key,
                      val |-> IF assign THEN val ELSE es[at].val,
                      before |-> entries, it |-> at,
                      inserted |-> idx = ToSizeT(-1)]
        /\ firstOrder' = Inserted(firstOrder, key)

\* clear()
clear ==
    /\ entries' = <<>>
    /\ firstOrder' = <<>>
    /\ mapLog' = [NoMapCall EXCEPT !.op = "clear", !.before = entries]

\* the state an insert_order_map call leaves alone
NotMap == <<msgVars, workVars, modelessVars, modalVars, accelVars>>

NextMap ==
    \/ \E k \in Keys, v \in Vals : emplace(k, v) /\ UNCHANGED NotMap
    \/ \E k \in Keys : emplace_key(k) /\ UNCHANGED NotMap
    \/ \E k \in Keys, v \in Vals, assign \in BOOLEAN :
          subscript(k, assign, v) /\ UNCHANGED NotMap
    \/ clear /\ UNCHANGED NotMap

SpecMap == InitMsg /\ [][NextMap]_vars

-----------------------------------------------------------------------------
(* Claims checked under SpecMsg *)

\* the store a message is looked up in, among the stores exec searched
TableOf(e) ==
    IF e.msg = WM_COMMAND THEN e.tables[2]
    ELSE IF e.msg = WM_NOTIFY THEN e.tables[3] ELSE e.tables[1]

\* the key a message is looked up under
KeyOf(e) ==
    IF e.msg = WM_COMMAND THEN ToInt(e.wp) % 65536
    ELSE IF e.msg = WM_NOTIFY
         THEN IF e.lp = 1 THEN <<1, -2>> ELSE <<2, -3>>
         ELSE e.msg

\* C1: exec looks WM_COMMAND up in the command store under the low word of
\* wParam, WM_NOTIFY in the notification store under (idFrom, code) and any
\* other message in the message store under its ID.  A handler registered under
\* that key is invoked exactly once with (wParam, lParam) and its result is
\* returned; with none registered no handler is invoked and the result is
\* empty.  No handler of another key or another store is invoked.
Thm_C1_exec_dispatch ==
    lastExec.exec =>
        LET e == lastExec
            registered == {i \in 1..Len(TableOf(e)) : TableOf(e)[i].id = KeyOf(e)}
        IN  IF registered # {}
            THEN /\ Len(e.calls) = 1
                 /\ \E i \in registered : e.calls[1].func = TableOf(e)[i].func
                 /\ e.calls[1].wp = e.wp
                 /\ e.calls[1].lp = e.lp
                 /\ e.ret # None
                 /\ ~e.out.threw => e.ret = Some(e.out.val)
            ELSE /\ e.calls = <<>>
                 /\ e.ret = None

\* WM_COMMAND with a non-zero high word of wParam reaches the handler of its
\* command ID, while a handler registered in the message store is left alone.
Wit_C1_exec_dispatch ==
    /\ lastExec.exec
    /\ lastExec.msg = WM_COMMAND
    /\ lastExec.wp = <<1, 1>>
    /\ Len(lastExec.calls) = 1
    /\ lastExec.ret = Some(5)
    /\ \E i \in 1..Len(lastExec.tables[1]) :
          lastExec.tables[1][i].id \in {WM_COMMAND, WM_CREATE}

\* C5: on_msg() throws std::logic_error, and leaves the three stores as they
\* were, exactly when it is called between the WM_INITDIALOG and the WM_NCDESTROY
\* of the dialog; before creation and after destruction it does not throw.
Thm_C5_on_msg_guard ==
    lastCall.op = "on_msg" =>
        /\ (lastCall.threw = "logic_error") <=> (lastCall.osBefore = "live")
        /\ (lastCall.threw = "none") <=> (lastCall.osBefore # "live")
        /\ lastCall.threw # "none" => <<msgs, cmds, nfys>> = lastCall.before
        /\ (hWnd # NULL) <=> (osWin = "live")

\* on_msg() threw on a dialog that was destroyed and created again, the stores
\* holding a handler registered between the two.
Wit_C5_on_msg_guard ==
    /\ lastCall.op = "on_msg"
    /\ lastCall.threw = "logic_error"
    /\ nCreated = 2
    /\ Len(cmds) > 0

-----------------------------------------------------------------------------
(* Claims checked under SpecCreate *)

\* C6: for each of the eight classes setup() throws std::logic_error exactly
\* when hwnd() is non-null, and then the stored options are what they were;
\* with a null hwnd() it does not throw and the options can be written.
Thm_C6_setup_guard ==
    lastCall.op = "setup" =>
        /\ (lastCall.threw = "logic_error") <=> (lastCall.hBefore # NULL)
        /\ (lastCall.threw = "none") <=> (lastCall.hBefore = NULL)
        /\ lastCall.threw # "none" => setupOpts = lastCall.before

\* setup() threw on a created window_control whose options had been set
Wit_C6_setup_guard ==
    /\ lastCall.op = "setup"
    /\ lastCall.threw = "logic_error"
    /\ cls = "window_control"
    /\ setupOpts = 102
    /\ hWnd # NULL

\* C7: create_dialog_param and dialog_box_param throw std::logic_error, and
\* call no Win32 creation function, exactly when the object has a window handle
\* or its dialog ID is 0; otherwise, also on an object whose dialog was
\* destroyed, they go on to the Win32 creation function.
Thm_C7_creation_checks ==
    lastCall.op \in {"create_dialog_param", "dialog_box_param"} =>
        /\ (lastCall.threw = "logic_error")
              <=> (lastCall.hBefore # NULL \/ lastCall.before = 0)
        /\ lastCall.threw = "logic_error" => ~lastCall.win32
        /\ lastCall.threw # "logic_error" => lastCall.win32

\* a dialog that was created, destroyed and created again, on which a further
\* creation threw "Cannot create a dialog twice"
Wit_C7_creation_checks ==
    /\ lastCall.op \in {"create_dialog_param", "dialog_box_param"}
    /\ lastCall.threw = "logic_error"
    /\ lastCall.hBefore # NULL
    /\ lastCall.before # 0
    /\ nCreated = 2

\* C8 as claimed: whenever DialogBoxParamW fails, dialog_box_param throws
\* std::system_error instead of returning the failure value.
Claim_C8_box_failure_throws ==
    (lastCall.op = "dialog_box_param" /\ lastCall.failed) =>
        lastCall.threw = "system_error"

-----------------------------------------------------------------------------
(* Claims checked under SpecWork *)

\* C2 as claimed: when ui_work::work returns to the background thread, the
\* function has been run to completion, whatever the state of the window.
Claim_C2_work_blocks ==
    \A w \in Works : work[w].returned => work[w].runs >= 1

Claim_C4_background_work ==
    \A t \in Tasks :
        /\ task[t].calls <= 1
        /\ task[t].frees <= 1
        /\ task[t].by # "ui"
        /\ task[t].pack = "freed" => task[t].pc = "done"
        /\ task[t].pc \in {"done", "nothread"} =>
              (task[t].calls = 1 /\ task[t].frees = 1)

-----------------------------------------------------------------------------
(* Claims checked under SpecModeless *)

Tracked == {modelessChildren[i] : i \in 1..Len(modelessChildren)}

LiveChildren == {c \in Children : child[c].hWnd # NULL}

\* C9: for a window_main whose modeless children are window_modeless windows,
\* the handles registered in its main loop are, in every state, exactly the
\* handles of the children created and not yet destroyed, each registered
\* once; messages with the two IDs and another wParam change nothing.
Thm_C9_modeless_tracking ==
    (\A c \in Children : child[c].kind = "window_modeless") =>
        /\ Tracked = {child[c].hWnd : c \in LiveChildren}
        /\ Len(modelessChildren) = Cardinality(LiveChildren)
        /\ \A c \in Children :
              child[c].toldDestroyed # -1 => child[c].toldDestroyed = child[c].toldCreated

\* two window_modeless children are registered after a third creation: one of
\* them was created, destroyed and created again
Wit_C9_modeless_tracking ==
    /\ \A c \in Children : child[c].kind = "window_modeless"
    /\ Len(modelessChildren) = 2
    /\ nModeless = 3
    /\ hWnd # NULL

\* C10 as claimed: a dialog_modeless sends WM_MODELESS_DESTROYED to the window
\* it sent WM_MODELESS_CREATED to, and once it is destroyed its handle is no
\* longer in the parent's tracked set.
Claim_C10_dialog_modeless_untracked ==
    \A c \in Children :
        (child[c].kind = "dialog_modeless" /\ child[c].hWnd = NULL
            /\ child[c].toldCreated # -1) =>
            /\ child[c].toldDestroyed = child[c].toldCreated
            /\ (child[c].was \in Tracked =>
                   \E d \in LiveChildren : child[d].hWnd = child[c].was)


Claim_C12_no_add_after_haccel ==
    (accelLog.op \in {"add_char", "add_key"} /\ accelLog.built)
        => (accelLog.threw = "logic_error" /\ accels = accelLog.before)


\* C13: after any sequence of emplace, operator[] and clear calls no two
\* entries have equal keys, and begin() .. end() visits the keys in the order
\* of their first insertion since the last clear().
Thm_C13_insertion_order ==
    /\ \A i, j \in 1..Len(entries) : i # j => entries[i].key # entries[j].key
    /\ KeysOf(entries) = firstOrder

\* the map is full; the last calls found their keys present, one of them not
\* in the last position
Wit_C13_insertion_order ==
    /\ Len(entries) = MaxEntries
    /\ mapLog.op \in {"emplace", "emplace_key", "subscript"}
    /\ ~mapLog.inserted
    /\ mapLog.it < Len(entries)
    /\ KeysOf(entries) # [i \in 1..Len(entries) |-> i]

\* C14: emplace inserts iff the key is absent.  Absent: (key, val) is appended,
\* the size grows by one and (iterator to the new entry, true) is returned.
\* Present: (iterator to the entry with the key, false) is returned and the
\* entries, their values and their order are as before.
Thm_C14_emplace ==
    mapLog.op \in {"emplace", "emplace_key"} =>
        LET b == mapLog.before
            present == \E i \in 1..Len(b) : b[i].key = mapLog.key
        IN  IF present
            THEN /\ ~mapLog.inserted
                 /\ entries = b
                 /\ mapLog.it \in 1..Len(b)
                 /\ b[mapLog.it].key = mapLog.key
            ELSE /\ mapLog.inserted
                 /\ entries = Append(b, [key |-> mapLog.key, val |-> mapLog.val])
                 /\ Len(entries) = Len(b) + 1
                 /\ mapLog.it = Len(entries)

\* emplace(key, val) found the key present with another value and left it
Wit_C14_emplace ==
    /\ mapLog.op = "emplace"
    /\ ~mapLog.inserted
    /\ entries = mapLog.before
    /\ entries[mapLog.it].key = mapLog.key
    /\ entries[mapLog.it].val # mapLog.val
    /\ Len(entries) >= 2


\* C15 as claimed: every std::function allocated by ui_work::work is deleted
\* exactly once: never twice, and it has been deleted when work() returns,
\* also when the window no longer exists or the function throws.
Claim_C15_function_deleted_once ==
    \A w \in Works :
        /\ work[w].dels <= 1
        /\ work[w].returned => (work[w].fn = "deleted" /\ work[w].dels = 1)

=============================================================================
